---------------------------- MODULE Spec2Model ----------------------------
(***************************************************************************)
(* Media-assembly pipeline of BrainRotAI (video_generator.py).             *)
(*                                                                         *)
(* Python floats are modelled as a binary floating-point format with       *)
(* Precision significand bits and a smallest spacing of 2^-FracBits        *)
(* seconds, rounding every operation to nearest, ties to even, as IEEE-754 *)
(* doubles do.  A float is held as the integer count of 2^-FracBits units. *)
(* sum() is the left-to-right float sum of CPython up to 3.11.             *)
(***************************************************************************)
EXTENDS Integers, Sequences, FiniteSets, TLC

\* ------------------------------------------------------------------ bounds
FracBits == 3
Precision == 5
MaxSeconds == 12
MaxImages == 4

\* ------------------------------------------------------- float arithmetic
RECURSIVE Pow2(_)
Pow2(n) == IF n = 0 THEN 1 ELSE 2 * Pow2(n - 1)

Unit == Pow2(FracBits)

\* smallest e >= 0 with num/den < 2^(Precision+e)
RECURSIVE Exponent(_, _, _)
Exponent(num, den, e) ==
    IF num < den * Pow2(Precision + e) THEN e ELSE Exponent(num, den, e + 1)

RoundNearestEven(num, den) ==
    LET q == num \div den
        r == num % den
    IN  IF 2 * r > den \/ (2 * r = den /\ q % 2 = 1) THEN q + 1 ELSE q

\* the float nearest to the rational num/den (in units)
FloatRound(num, den) ==
    LET s == Pow2(Exponent(num, den, 0))
    IN  RoundNearestEven(num, den * s) * s

IsFloat(k) == FloatRound(k, 1) = k

Floats == {k \in 0..(MaxSeconds * Unit) : IsFloat(k)}

\* a / n for a float a and an integer n >= 1
fdiv(a, n) == FloatRound(a, n)
fadd(a, b) == FloatRound(a + b, 1)
\* a - b, used only where a > b
fsub(a, b) == FloatRound(a - b, 1)

\* sum(durations): 0 + d[1] + d[2] + ... with a rounding after every addition
RECURSIVE sum(_)
sum(s) == IF Len(s) = 0 THEN 0
          ELSE fadd(sum(SubSeq(s, 1, Len(s) - 1)), s[Len(s)])

\* the exact (real) sum of a sequence, in units
RECURSIVE ExactSum(_)
ExactSum(s) == IF Len(s) = 0 THEN 0 ELSE s[1] + ExactSum(Tail(s))

\* ------------------------------------------------ calculate_image_durations
min_duration == 2 * Unit

UnflooredBase(base) == base

base_duration_of(base) == IF base < min_duration THEN min_duration ELSE base

\* the shortfall given to the first image instead of the last
calculate_image_durations_first(images, total_duration) ==
    IF Len(images) = 0 THEN << >>
    ELSE LET n == Len(images)
             base_duration == base_duration_of(fdiv(total_duration, n))
             durations == [k \in 1..n |-> base_duration]
             total_calculated == sum(durations)
         IN  IF total_calculated < total_duration
             THEN [durations EXCEPT
                      ![1] = fadd(@, fsub(total_duration, total_calculated))]
             ELSE durations

\* the residual added whenever the sum differs from the audio duration
calculate_image_durations_always(images, total_duration) ==
    IF Len(images) = 0 THEN << >>
    ELSE LET n == Len(images)
             base_duration == base_duration_of(fdiv(total_duration, n))
             durations == [k \in 1..n |-> base_duration]
             total_calculated == sum(durations)
         IN  IF total_calculated # total_duration
             THEN [durations EXCEPT
                      ![n] = fadd(@, fsub(total_duration, total_calculated))]
             ELSE durations

calculate_image_durations(images, total_duration) ==
    IF Len(images) = 0 THEN << >>
    ELSE LET n == Len(images)
             base_duration == base_duration_of(fdiv(total_duration, n))
             durations == [k \in 1..n |-> base_duration]
             total_calculated == sum(durations)
         IN  IF total_calculated < total_duration
             THEN [durations EXCEPT
                      ![n] = fadd(@, fsub(total_duration, total_calculated))]
             ELSE durations

\* ------------------------------------------------------- get_audio_duration
\* an audio file: whether wave.open can read it, and its header fields
AudioFiles ==
    { [readable |-> FALSE, nframes |-> 0,  framerate |-> 0],
      [readable |-> TRUE,  nframes |-> 7,  framerate |-> 0],
      [readable |-> TRUE,  nframes |-> 5,  framerate |-> 1],
      [readable |-> TRUE,  nframes |-> 19, framerate |-> 3] }

ProbeFails(audio_path) == ~audio_path.readable \/ audio_path.framerate = 0

\* a probe whose except branch reports -1 second
get_audio_duration_minus_one(audio_path) ==
    IF ProbeFails(audio_path) THEN -Unit
    ELSE FloatRound(audio_path.nframes * Unit, audio_path.framerate)

\* frames / float(sample_rate), or 0 from the except branch
get_audio_duration(audio_path) ==
    IF ProbeFails(audio_path) THEN 0
    ELSE FloatRound(audio_path.nframes * Unit, audio_path.framerate)

\* ------------------------------------------------------ image dictionaries
NoKey == "<no key>"

\* image files on disk: which paths exist, and which of them PIL can decode
Exists(path) == path \in {"ok.png", "corrupt.png"}
Decodable(path) == path = "ok.png"

ImageDicts ==
    { [path |-> "ok.png",      segment_text |-> "story text"],
      [path |-> "corrupt.png", segment_text |-> "story text"],
      [path |-> "gone.png",    segment_text |-> "story text"],
      [path |-> "gone.png",    segment_text |-> NoKey],
      [path |-> NoKey,         segment_text |-> "other text"] }

MaxSegments == 2

ImageLists == UNION { [1..n -> ImageDicts] : n \in 0..MaxSegments }

\* the inputs of the overlapping calls
MaxConcSegments == 2

ConcImageDicts ==
    { [path |-> "ok.png",   segment_text |-> "story text"],
      [path |-> "gone.png", segment_text |-> "story text"] }

ConcImageLists == UNION { [1..n -> ConcImageDicts] : n \in 1..MaxConcSegments }

\* frame_0000.png, frame_0001.png, ... by number
FrameIds ==
    0..((IF MaxSegments > MaxConcSegments THEN MaxSegments ELSE MaxConcSegments) - 1)

ConcAudioFiles == { [readable |-> TRUE, nframes |-> 5, framerate |-> 1] }

\* ------------------------------------------------------------------ frames
NoFrame == [kind |-> "none", src |-> "", part |-> 0, by |-> 0]

BlackFrame == [kind |-> "black", src |-> "", part |-> 0]

\* resize_image_for_video without its try/except: Image.open raises
resize_image_unguarded(image_path) ==
    IF Decodable(image_path)
    THEN [kind |-> "image", src |-> image_path, part |-> 0]
    ELSE [kind |-> "raise", src |-> "UnidentifiedImageError", part |-> 0]

\* resize_image_for_video: the letterboxed picture, or the black fallback of
\* its except branch
resize_image_for_video(image_path) ==
    IF Decodable(image_path)
    THEN [kind |-> "image", src |-> image_path, part |-> 0]
    ELSE BlackFrame

\* a text is a literal, or the f-string 'Part {i+1}'
create_text_overlay_image(text) ==
    [kind |-> "text", src |-> text.lit, part |-> text.part]

\* img_data.get('segment_text', f'Part {i+1}')
segment_text_or_label(img_data, i) ==
    IF img_data.segment_text = NoKey
    THEN [lit |-> "Part", part |-> i + 1]
    ELSE [lit |-> img_data.segment_text, part |-> 0]

\* lines 213-218: the frame of images[i] (i counts from 0)
processed_img(img_data, i) ==
    IF Exists(img_data.path)
    THEN resize_image_for_video(img_data.path)
    ELSE create_text_overlay_image(segment_text_or_label(img_data, i))

\* ---------------------------------------------------------------- manifest
FileLine(path) ==
    [tag |-> "file", dir |-> path.dir, frame |-> path.frame, duration |-> 0]

DurationLine(duration) ==
    [tag |-> "duration", dir |-> "", frame |-> 0, duration |-> duration]

RECURSIVE PairLines(_)
PairLines(processed_images) ==
    IF Len(processed_images) = 0 THEN << >>
    ELSE << FileLine(processed_images[1].path),
            DurationLine(processed_images[1].duration) >>
         \o PairLines(Tail(processed_images))

LastLineDropped(processed_images) == << >>

LastLine(processed_images) ==
    IF Len(processed_images) = 0 THEN << >>
    ELSE << FileLine(processed_images[Len(processed_images)].path) >>

\* the text written to input_list.txt
ManifestLines(processed_images) ==
    PairLines(processed_images) \o LastLine(processed_images)

NoManifest == [present |-> FALSE, by |-> 0, lines |-> << >>]

\* ------------------------------------------------------------ the callers
Jobs == {1, 2}

JsonFiles == {"story", "missing", "malformed"}

\* dirname(output_path) and the file name
OutputPaths ==
    { [dir |-> "",       name |-> "a.mp4"],
      [dir |-> "videos", name |-> "a.mp4"],
      [dir |-> "videos", name |-> "b.mp4"] }

OutDirs == {o.dir : o \in OutputPaths}

ExitCodes == {0, 1}

NoArgs == [json_path |-> "missing",
           audio_path |-> [readable |-> FALSE, nframes |-> 0, framerate |-> 0],
           images |-> << >>,
           output_path |-> [dir |-> "", name |-> "a.mp4"]]

NoLocals == [audio_duration |-> 0, durations |-> << >>, temp_made |-> FALSE,
             i |-> 0, processed_images |-> << >>, returncode |-> -1,
             exc |-> "none", called |-> FALSE]

NoEncoder == [runs |-> 0, input |-> NoManifest, spawned |-> FALSE]

NoReturn == [success |-> "unset", result |-> "unset"]

\* --------------------------------------------------------------- state
VARIABLES
    pc,          \* where each job's call of generate_story_video stands
    callsLeft,   \* 1 while the job has its call still to make
    args,        \* json_path, audio_path, images_data, output_path
    loc,         \* locals of create_video_from_images_and_audio
    ret,         \* its return value and that of generate_story_video
    enc,         \* the ffmpeg runs of the current call
    dirs,        \* output directories that exist
    tempDirs,    \* d such that <d>/temp_video_images exists
    frameFiles,  \* frame_NNNN.png files in each temp directory
    manifests,   \* input_list.txt in each temp directory
    videos,      \* output files written by ffmpeg
    alloc,       \* arguments and result of calculate_image_durations
    gen,         \* segments and result of generate_story_images
    fit,         \* source, target and result of resize_image_for_video
    overlay,     \* text, fonts and result of create_text_overlay_image
    split,       \* text, limit and result of split_text_smart
    sel,         \* stories, audio files and results of get_next_unprocessed_story
    runs         \* the audio directory over the runs of run_story_tts.main

vars == << pc, callsLeft, args, loc, ret, enc, dirs, tempDirs, frameFiles,
           manifests, videos, alloc, gen, fit, overlay, split, sel, runs >>

ttsvars == << split, sel, runs >>

purevars == << alloc, gen, fit, overlay, ttsvars >>

fsvars == << dirs, tempDirs, frameFiles, manifests, videos >>

NoAlloc == [n |-> 0, total |-> 0, out |-> << >>, done |-> TRUE]
NoGen == [segments |-> << >>, out |-> << >>, done |-> TRUE]
NoFit == [w |-> 1, h |-> 1, W |-> 1, H |-> 1, done |-> TRUE,
          new_size |-> << 1, 1 >>, resized |-> TRUE,
          offset |-> << 0, 0 >>, size |-> << 1, 1 >>]
NoText == [words |-> << >>, len |-> 0, latin1 |-> TRUE, latin1_head |-> TRUE]
NoOverlay == [text |-> NoText, arial |-> TRUE, default_font |-> "truetype",
              width |-> 0, height |-> 0, done |-> TRUE,
              lines |-> << >>, drawn |-> "nothing", chars |-> 0,
              at |-> << 0, 0 >>, raised |-> "none", size |-> << 0, 0 >>]

NoSplit == [sentences |-> << >>, trailing |-> FALSE, max_words |-> 1,
            out |-> << >>, done |-> TRUE]
NoSel == [stories |-> << >>, exists |-> FALSE, files |-> {},
          run_out |-> 0, find_out |-> 0, done |-> TRUE]
NoRuns == [exists |-> FALSE, made |-> {}, n |-> 0, stories |-> << >>,
           before |-> {}, picked |-> 0]

NoTtsCalls ==
    /\ split = NoSplit
    /\ sel = NoSel
    /\ runs = NoRuns

NoFunctionCalls ==
    /\ alloc = NoAlloc
    /\ gen = NoGen
    /\ fit = NoFit
    /\ overlay = NoOverlay
    /\ NoTtsCalls

EmptyDisk ==
    /\ dirs = {}
    /\ tempDirs = {}
    /\ frameFiles = [d \in OutDirs |-> [f \in FrameIds |-> NoFrame]]
    /\ manifests = [d \in OutDirs |-> NoManifest]
    /\ videos = {}

NoCalls ==
    /\ pc = [j \in Jobs |-> "idle"]
    /\ args = [j \in Jobs |-> NoArgs]
    /\ loc = [j \in Jobs |-> NoLocals]
    /\ ret = [j \in Jobs |-> NoReturn]
    /\ enc = [j \in Jobs |-> NoEncoder]

\* what an earlier call into "videos" that ffmpeg failed left behind: its temp
\* directory, two frames and the manifest (rmtree runs on success only)
LeftoverImages ==
    << [path |-> "ok.png", segment_text |-> "story text"],
       [path |-> "gone.png", segment_text |-> "other text"] >>

LeftoverFrame(f) ==
    IF f < Len(LeftoverImages)
    THEN [kind |-> processed_img(LeftoverImages[f + 1], f).kind,
          src |-> processed_img(LeftoverImages[f + 1], f).src,
          part |-> processed_img(LeftoverImages[f + 1], f).part,
          by |-> 0]
    ELSE NoFrame

LeftoverDisk ==
    /\ dirs = {"videos"}
    /\ tempDirs = {"videos"}
    /\ frameFiles = [d \in OutDirs |->
                       [f \in FrameIds |->
                           IF d = "videos" THEN LeftoverFrame(f) ELSE NoFrame]]
    /\ manifests = [d \in OutDirs |->
                      IF d = "videos"
                      THEN [present |-> TRUE, by |-> 0,
                            lines |-> ManifestLines(
                                [k \in 1..Len(LeftoverImages) |->
                                    [path |-> [dir |-> "videos", frame |-> k - 1],
                                     duration |-> min_duration]])]
                      ELSE NoManifest]
    /\ videos = {}

\* one caller, one call, on a fresh disk or after an earlier failed call
Init ==
    /\ NoCalls
    /\ EmptyDisk \/ LeftoverDisk
    /\ callsLeft = [j \in Jobs |-> IF j = 1 THEN 1 ELSE 0]
    /\ NoFunctionCalls

\* two callers, one call each, which may overlap
InitConc ==
    /\ NoCalls
    /\ EmptyDisk
    /\ callsLeft = [j \in Jobs |-> 1]
    /\ NoFunctionCalls

InCall(j) == pc[j] \notin {"idle", "returned"}

\* ------------------------------------------------- generate_story_video
\* the caller invokes generate_story_video(json_path, audio_path, images_data,
\* output_path); overlapping calls are given distinct output paths
CallWith(j, Records, Audios, Lists) ==
    /\ ~InCall(j)
    /\ callsLeft[j] > 0
    /\ \E js \in Records, a \in Audios, imgs \in Lists, o \in OutputPaths :
          /\ \A k \in Jobs \ {j} : InCall(k) => args[k].output_path # o
          /\ args' = [args EXCEPT ![j] = [json_path |-> js, audio_path |-> a,
                                          images |-> imgs, output_path |-> o]]
    /\ callsLeft' = [callsLeft EXCEPT ![j] = @ - 1]
    /\ pc' = [pc EXCEPT ![j] = "load"]
    /\ loc' = [loc EXCEPT ![j] = NoLocals]
    /\ ret' = [ret EXCEPT ![j] = NoReturn]
    /\ enc' = [enc EXCEPT ![j] = NoEncoder]
    /\ UNCHANGED << fsvars, purevars >>

Call(j) == CallWith(j, JsonFiles, AudioFiles, ImageLists)

\* two story jobs at once: each has a record and a non-empty image list
CallConc(j) == CallWith(j, {"story"}, ConcAudioFiles, ConcImageLists)

\* the assembler called without looking at the record
AssemblerFirst(j) ==
    /\ pc[j] = "load"
    /\ pc' = [pc EXCEPT ![j] = "probe"]
    /\ loc' = [loc EXCEPT ![j].called = TRUE]
    /\ UNCHANGED << callsLeft, args, ret, enc, fsvars, purevars >>

\* lines 287-296 and 304-306: open and parse the record, then call the
\* assembler; any exception makes the function return False
LoadRecord(j) ==
    /\ pc[j] = "load"
    /\ IF args[j].json_path = "story"
       THEN /\ pc' = [pc EXCEPT ![j] = "probe"]
            /\ loc' = [loc EXCEPT ![j].called = TRUE]
            /\ ret' = ret
       ELSE /\ pc' = [pc EXCEPT ![j] = "returned"]
            /\ ret' = [ret EXCEPT ![j].result = "False"]
            /\ loc' = loc
    /\ UNCHANGED << callsLeft, args, enc, fsvars, purevars >>

\* lines 298-302: return success
ReturnSuccess(j) ==
    /\ pc[j] = "assembled"
    /\ pc' = [pc EXCEPT ![j] = "returned"]
    /\ ret' = [ret EXCEPT ![j].result = ret[j].success]
    /\ UNCHANGED << callsLeft, args, loc, enc, fsvars, purevars >>

\* --------------------------------- create_video_from_images_and_audio
\* lines 270-272: the except branch returns False
Raise(j, e) ==
    /\ pc' = [pc EXCEPT ![j] = "assembled"]
    /\ loc' = [loc EXCEPT ![j].exc = e]
    /\ ret' = [ret EXCEPT ![j].success = "False"]

\* lines 195-196
GetDuration(j) ==
    /\ pc[j] = "probe"
    /\ loc' = [loc EXCEPT ![j].audio_duration = get_audio_duration(args[j].audio_path)]
    /\ pc' = [pc EXCEPT ![j] = "check"]
    /\ UNCHANGED << callsLeft, args, ret, enc, fsvars, purevars >>

\* the emptiness test left out
CheckImagesSkipped(j) ==
    /\ pc[j] = "check"
    /\ pc' = [pc EXCEPT ![j] = "mktemp"]
    /\ loc' = [loc EXCEPT ![j].durations =
                  calculate_image_durations(args[j].images, loc[j].audio_duration)]
    /\ UNCHANGED << callsLeft, args, ret, enc, fsvars, purevars >>

\* lines 198-204
CheckImages(j) ==
    /\ pc[j] = "check"
    /\ IF Len(args[j].images) = 0
       THEN /\ pc' = [pc EXCEPT ![j] = "assembled"]
            /\ ret' = [ret EXCEPT ![j].success = "False"]
            /\ loc' = loc
       ELSE /\ pc' = [pc EXCEPT ![j] = "mktemp"]
            /\ loc' = [loc EXCEPT ![j].durations =
                          calculate_image_durations(args[j].images,
                                                    loc[j].audio_duration)]
            /\ ret' = ret
    /\ UNCHANGED << callsLeft, args, enc, fsvars, purevars >>

TempDirOf(j) == args[j].output_path.dir

\* lines 207-208: os.makedirs(temp_dir, exist_ok=True) makes the parents too
MakeTempDir(j) ==
    /\ pc[j] = "mktemp"
    /\ tempDirs' = tempDirs \cup {TempDirOf(j)}
    /\ dirs' = dirs \cup ({TempDirOf(j)} \ {""})
    /\ loc' = [loc EXCEPT ![j].temp_made = TRUE]
    /\ pc' = [pc EXCEPT ![j] = "frames"]
    /\ UNCHANGED << callsLeft, args, ret, enc, frameFiles, manifests, videos, purevars >>

\* lines 212-223, one turn of the loop: img_data['path'] raises KeyError when
\* the key is missing; save raises when the directory is gone
ProcessImage(j) ==
    /\ pc[j] = "frames"
    /\ loc[j].i < Len(args[j].images)
    /\ LET i == loc[j].i
           img_data == args[j].images[i + 1]
           temp_img_path == [dir |-> TempDirOf(j), frame |-> i]
       IN  IF img_data.path = NoKey
           THEN Raise(j, "KeyError") /\ UNCHANGED frameFiles
           ELSE IF processed_img(img_data, i).kind = "raise"
           THEN Raise(j, processed_img(img_data, i).src) /\ UNCHANGED frameFiles
           ELSE IF TempDirOf(j) \notin tempDirs
           THEN Raise(j, "FileNotFoundError") /\ UNCHANGED frameFiles
           ELSE /\ frameFiles' = [frameFiles EXCEPT ![TempDirOf(j)][i] =
                                     [kind |-> processed_img(img_data, i).kind,
                                      src |-> processed_img(img_data, i).src,
                                      part |-> processed_img(img_data, i).part,
                                      by |-> j]]
                /\ loc' = [loc EXCEPT
                             ![j].processed_images =
                                 Append(@, [path |-> temp_img_path,
                                            duration |-> loc[j].durations[i + 1]]),
                             ![j].i = i + 1]
                /\ UNCHANGED << pc, ret >>
    /\ UNCHANGED << callsLeft, args, enc, dirs, tempDirs, manifests, videos, purevars >>

\* lines 226-233: open(input_list_path, 'w') and the writes
WriteManifest(j) ==
    /\ pc[j] = "frames"
    /\ loc[j].i = Len(args[j].images)
    /\ IF TempDirOf(j) \notin tempDirs
       THEN Raise(j, "FileNotFoundError") /\ UNCHANGED manifests
       ELSE /\ manifests' = [manifests EXCEPT ![TempDirOf(j)] =
                               [present |-> TRUE, by |-> j,
                                lines |-> ManifestLines(loc[j].processed_images)]]
            /\ pc' = [pc EXCEPT ![j] = "mkout"]
            /\ UNCHANGED << loc, ret >>
    /\ UNCHANGED << callsLeft, args, enc, dirs, tempDirs, frameFiles, videos, purevars >>

\* line 236: os.makedirs('') raises FileNotFoundError
MakeOutputDir(j) ==
    /\ pc[j] = "mkout"
    /\ IF args[j].output_path.dir = ""
       THEN Raise(j, "FileNotFoundError") /\ UNCHANGED dirs
       ELSE /\ dirs' = dirs \cup {args[j].output_path.dir}
            /\ pc' = [pc EXCEPT ![j] = "run"]
            /\ UNCHANGED << loc, ret >>
    /\ UNCHANGED << callsLeft, args, enc, tempDirs, frameFiles, manifests, videos, purevars >>

\* ffmpeg started from inside the frame loop
RunEncoderEarly(j) ==
    /\ pc[j] \in {"frames", "run"}
    /\ enc' = [enc EXCEPT ![j] = [runs |-> @.runs + 1,
                                  input |-> manifests[TempDirOf(j)],
                                  spawned |-> TRUE]]
    /\ pc' = [pc EXCEPT ![j] = "encoding"]
    /\ UNCHANGED << loc, ret, callsLeft, args, fsvars, purevars >>

\* line 256, first half: subprocess.run starts ffmpeg, which opens the
\* manifest; it raises FileNotFoundError when ffmpeg is not installed
RunEncoder(j) ==
    /\ pc[j] = "run"
    /\ \/ /\ enc' = [enc EXCEPT ![j] = [runs |-> @.runs + 1,
                                        input |-> manifests[TempDirOf(j)],
                                        spawned |-> TRUE]]
          /\ pc' = [pc EXCEPT ![j] = "encoding"]
          /\ UNCHANGED << loc, ret >>
       \/ /\ Raise(j, "FileNotFoundError")
          /\ UNCHANGED enc
    /\ UNCHANGED << callsLeft, args, fsvars, purevars >>

\* the frame files the manifest handed to ffmpeg names are all on disk
InputReadable(j) ==
    /\ enc[j].input.present
    /\ \A k \in 1..Len(enc[j].input.lines) :
          enc[j].input.lines[k].tag = "file" =>
              /\ enc[j].input.lines[k].dir \in tempDirs
              /\ frameFiles[enc[j].input.lines[k].dir][enc[j].input.lines[k].frame]
                     # NoFrame

\* line 256, second half: ffmpeg exits; exit 0 needs a readable input and
\* leaves the output file
EncoderExit(j) ==
    /\ pc[j] = "encoding"
    /\ \E rc \in ExitCodes :
          /\ rc = 0 => InputReadable(j)
          /\ loc' = [loc EXCEPT ![j].returncode = rc]
          /\ videos' = IF rc = 0 THEN videos \cup {args[j].output_path} ELSE videos
    /\ pc' = [pc EXCEPT ![j] = "exited"]
    /\ UNCHANGED << callsLeft, args, ret, enc, dirs, tempDirs, frameFiles, manifests, purevars >>

\* shutil.rmtree(temp_dir, ignore_errors=True)
rmtree(j) ==
    /\ tempDirs' = tempDirs \ {TempDirOf(j)}
    /\ frameFiles' = [frameFiles EXCEPT ![TempDirOf(j)] =
                         [f \in FrameIds |-> NoFrame]]
    /\ manifests' = [manifests EXCEPT ![TempDirOf(j)] = NoManifest]

\* the exit status ignored
CheckResultIgnored(j) ==
    /\ pc[j] = "exited"
    /\ rmtree(j)
    /\ ret' = [ret EXCEPT ![j].success = "True"]
    /\ pc' = [pc EXCEPT ![j] = "assembled"]
    /\ UNCHANGED << callsLeft, args, loc, enc, dirs, videos, purevars >>

\* lines 258-268
CheckResult(j) ==
    /\ pc[j] = "exited"
    /\ IF loc[j].returncode = 0
       THEN /\ rmtree(j)
            /\ ret' = [ret EXCEPT ![j].success = "True"]
       ELSE /\ UNCHANGED << tempDirs, frameFiles, manifests >>
            /\ ret' = [ret EXCEPT ![j].success = "False"]
    /\ pc' = [pc EXCEPT ![j] = "assembled"]
    /\ UNCHANGED << callsLeft, args, loc, enc, dirs, videos, purevars >>

Next ==
    \E j \in Jobs :
        \/ Call(j)
        \/ LoadRecord(j)
        \/ GetDuration(j)
        \/ CheckImages(j)
        \/ MakeTempDir(j)
        \/ ProcessImage(j)
        \/ WriteManifest(j)
        \/ MakeOutputDir(j)
        \/ RunEncoder(j)
        \/ EncoderExit(j)
        \/ CheckResult(j)
        \/ ReturnSuccess(j)

Spec == Init /\ [][Next]_vars

NextConc ==
    \E j \in Jobs :
        \/ CallConc(j)
        \/ LoadRecord(j)
        \/ GetDuration(j)
        \/ CheckImages(j)
        \/ MakeTempDir(j)
        \/ ProcessImage(j)
        \/ WriteManifest(j)
        \/ MakeOutputDir(j)
        \/ RunEncoder(j)
        \/ EncoderExit(j)
        \/ CheckResult(j)
        \/ ReturnSuccess(j)

SpecConc == InitConc /\ [][NextConc]_vars

\* ------------------------------------- harness of calculate_image_durations
AnImage == [path |-> "ok.png", segment_text |-> "story text"]

NoPipeline ==
    /\ NoCalls
    /\ EmptyDisk
    /\ callsLeft = [j \in Jobs |-> 0]

pipevars == << pc, callsLeft, args, loc, ret, enc, fsvars >>

InitAlloc ==
    /\ alloc \in [n : 0..MaxImages, total : Floats, out : {<< >>}, done : {FALSE}]
    /\ gen = NoGen
    /\ fit = NoFit
    /\ overlay = NoOverlay
    /\ NoTtsCalls
    /\ NoPipeline

Allocate ==
    /\ ~alloc.done
    /\ alloc' = [alloc EXCEPT
                   !.out = calculate_image_durations([k \in 1..alloc.n |-> AnImage],
                                                     alloc.total),
                   !.done = TRUE]
    /\ UNCHANGED << pipevars, ttsvars, gen, fit, overlay >>

NextAlloc == Allocate

SpecAlloc == InitAlloc /\ [][NextAlloc]_vars

\* ---------------------------------------- harness of resize_image_for_video
RatioPrecision == 10
MaxSide == 20

\* a Python float of any magnitude: the value n / d, d a power of two, with
\* a significand of RatioPrecision bits
RECURSIVE ScaleUp(_, _, _)
ScaleUp(num, den, k) ==
    IF num * Pow2(k) >= den * Pow2(RatioPrecision - 1) THEN k
    ELSE ScaleUp(num, den, k + 1)

RECURSIVE ScaleDown(_, _, _)
ScaleDown(num, den, k) ==
    IF num < den * Pow2(RatioPrecision + k) THEN k
    ELSE ScaleDown(num, den, k + 1)

\* the float nearest to num / den, for num, den >= 1
RatioRound(num, den) ==
    IF num >= den * Pow2(RatioPrecision - 1)
    THEN LET t == Pow2(ScaleDown(num, den, 0))
         IN  [n |-> RoundNearestEven(num, den * t) * t, d |-> 1]
    ELSE LET t == Pow2(ScaleUp(num, den, 0))
         IN  [n |-> RoundNearestEven(num * t, den), d |-> t]

\* int(x) of a non-negative float
int(x) == x.n \div x.d

\* lines 81, 82: int / int
img_ratio(w, h) == RatioRound(w, h)
target_ratio(W, H) == RatioRound(W, H)

\* lines 84-91: the scaled size
new_size(w, h, W, H) ==
    LET r == img_ratio(w, h)
        t == target_ratio(W, H)
    IN  IF r.n * t.d > t.n * r.d
        THEN << W, int(RatioRound(W * r.d, r.n)) >>
        ELSE << int(RatioRound(H * r.n, r.d)), H >>

\* line 94: Image.resize raises ValueError unless both sides are positive
resize_raises(size) == size[1] < 1 \/ size[2] < 1

\* lines 100, 101: floor division
FloorDiv2(k) == IF k >= 0 THEN k \div 2 ELSE -((1 - k) \div 2)
x_offset(W, new_width) == FloorDiv2(W - new_width)
y_offset(H, new_height) == FloorDiv2(H - new_height)

\* the resized image returned without the background
resize_decoded_image_unpadded(w, h, W, H) ==
    LET s == new_size(w, h, W, H)
    IN  IF resize_raises(s)
        THEN [new_size |-> s, resized |-> FALSE, offset |-> << 0, 0 >>,
              size |-> << W, H >>]
        ELSE [new_size |-> s, resized |-> TRUE,
              offset |-> << x_offset(W, s[1]), y_offset(H, s[2]) >>,
              size |-> s]

\* lines 80-110 for an image that Image.open has decoded: the scaled image
\* pasted on the background, or the black frame of the except branch
resize_decoded_image(w, h, W, H) ==
    LET s == new_size(w, h, W, H)
    IN  IF resize_raises(s)
        THEN [new_size |-> s, resized |-> FALSE, offset |-> << 0, 0 >>,
              size |-> << W, H >>]
        ELSE [new_size |-> s, resized |-> TRUE,
              offset |-> << x_offset(W, s[1]), y_offset(H, s[2]) >>,
              size |-> << W, H >>]

TargetSizes == {<< 16, 9 >>, << 9, 16 >>, << 8, 8 >>}

InitFit ==
    /\ \E w, h \in 1..MaxSide : \E t \in TargetSizes :
          fit = [NoFit EXCEPT !.w = w, !.h = h, !.W = t[1], !.H = t[2],
                              !.done = FALSE]
    /\ alloc = NoAlloc
    /\ gen = NoGen
    /\ overlay = NoOverlay
    /\ NoTtsCalls
    /\ NoPipeline

Resize ==
    /\ ~fit.done
    /\ LET r == resize_decoded_image(fit.w, fit.h, fit.W, fit.H)
       IN  fit' = [fit EXCEPT !.done = TRUE, !.new_size = r.new_size,
                              !.resized = r.resized, !.offset = r.offset,
                              !.size = r.size]
    /\ UNCHANGED << pipevars, ttsvars, alloc, gen, overlay >>

NextFit == Resize

SpecFit == InitFit /\ [][NextFit]_vars

\* ------------------------------------- harness of create_text_overlay_image
MaxWords == 3
Margin == 100
FallbackChars == 100
FallbackX == 50

\* rendered widths of single words, in pixels, and of the space between two
WordWidths == {300, 900, 1900}
SpaceWidth == 10

TextLengths == {0, 5, 98, 100, 250}

\* a text: the rendered widths of its words in order, its length in
\* characters, whether all of it and whether its first 100 characters can be
\* encoded in latin-1
Texts ==
    {t \in [words : UNION {[1..n -> WordWidths] : n \in 0..MaxWords},
            len : TextLengths, latin1 : BOOLEAN, latin1_head : BOOLEAN] :
        /\ t.len >= 2 * Len(t.words) - 1
        /\ t.latin1 => t.latin1_head
        /\ (t.len <= FallbackChars /\ t.latin1_head) => t.latin1}

\* what ImageFont.load_default() gives: a TrueType font, or the bitmap font
\* that textbbox refuses, or a bitmap font that textbbox accepts
DefaultFonts == {"truetype", "bitmap_no_bbox", "bitmap"}

FrameSizes == {<< 1920, 1080 >>, << 640, 360 >>}

\* lines 131-134
font_of(arial, default_font) == IF arial THEN "truetype" ELSE default_font

\* lines 143, 144: bbox[2] of the words line[1..] joined by spaces
RECURSIVE line_width(_, _)
line_width(words, line) ==
    IF line = << >> THEN 0
    ELSE IF Len(line) = 1 THEN words[line[1]]
    ELSE words[line[1]] + SpaceWidth + line_width(words, Tail(line))

\* line 144: draw.textbbox raises for a bitmap font without bbox support and
\* for text a bitmap font cannot encode
textbbox_raises(font, text) ==
    \/ font = "bitmap_no_bbox"
    \/ font = "bitmap" /\ ~text.latin1

\* the overflowing word dropped
overflow_line_dropped(word) == << >>

\* line 150: the line the overflowing word starts
overflow_line(word) == << word >>

RECURSIVE wrap(_, _, _, _, _)
\* lines 142-153, from word k on; words are named by their position
wrap(words, k, lines, current_line, max_width) ==
    IF k > Len(words)
    THEN IF current_line # << >> THEN Append(lines, current_line) ELSE lines
    ELSE IF line_width(words, Append(current_line, k)) <= max_width
         THEN wrap(words, k + 1, lines, Append(current_line, k), max_width)
         ELSE wrap(words, k + 1,
                   IF current_line # << >> THEN Append(lines, current_line)
                                           ELSE lines,
                   overflow_line(k), max_width)

\* the ellipsis appended to the untruncated text
fallback_chars_untruncated(len) == len + 3

\* line 174: len(text[:100] + "...")
fallback_chars(len) ==
    (IF len < FallbackChars THEN len ELSE FallbackChars) + 3

\* line 174: draw.text with the default font
fallback_raises(default_font, text) ==
    default_font # "truetype" /\ ~text.latin1_head

\* lines 126-176
create_text_overlay_sized(text, arial, default_font, width, height) ==
    LET font == font_of(arial, default_font)
        lines == wrap(text.words, 1, << >>, << >>, width - Margin)
        none == [lines |-> << >>, drawn |-> "nothing", chars |-> 0,
                 at |-> << 0, 0 >>, raised |-> "none", size |-> << width, height >>]
    IN  IF text.words = << >> THEN none
        ELSE IF ~textbbox_raises(font, text)
        THEN [none EXCEPT !.lines = lines, !.drawn = "lines"]
        ELSE IF fallback_raises(default_font, text)
        THEN [none EXCEPT !.raised = "UnicodeEncodeError", !.size = << 0, 0 >>]
        ELSE [none EXCEPT !.drawn = "fallback",
                          !.chars = fallback_chars(text.len),
                          !.at = << FallbackX, height \div 2 >>]

InitOverlay ==
    /\ \E t \in Texts, a \in BOOLEAN, f \in DefaultFonts, s \in FrameSizes :
          overlay = [NoOverlay EXCEPT !.text = t, !.arial = a,
                                      !.default_font = f, !.width = s[1],
                                      !.height = s[2], !.done = FALSE]
    /\ alloc = NoAlloc
    /\ gen = NoGen
    /\ fit = NoFit
    /\ NoTtsCalls
    /\ NoPipeline

RenderText ==
    /\ ~overlay.done
    /\ LET r == create_text_overlay_sized(overlay.text, overlay.arial,
                                          overlay.default_font,
                                          overlay.width, overlay.height)
       IN  overlay' = [overlay EXCEPT !.done = TRUE, !.lines = r.lines,
                                      !.drawn = r.drawn, !.chars = r.chars,
                                      !.at = r.at, !.raised = r.raised,
                                      !.size = r.size]
    /\ UNCHANGED << pipevars, ttsvars, alloc, gen, fit >>

NextOverlay == RenderText

SpecOverlay == InitOverlay /\ [][NextOverlay]_vars

\* ---------------------------------------------- harness of split_text_smart
MaxSentences == 4
MaxSentenceWords == 3
MaxChunkWords == 4

\* a text as re.split cuts it: the word counts of its sentences in order;
\* text that ends in white space after a full stop gives one more, empty,
\* sentence
SentenceLists ==
    UNION {[1..n -> 1..MaxSentenceWords] : n \in 0..MaxSentences}

sentences_of(counts, trailing) ==
    IF trailing /\ counts # << >> THEN Append(counts, 0) ELSE counts

RECURSIVE word_count(_, _)
\* len(' '.join(chunk).split()) of the sentences named by chunk
word_count(sentences, chunk) ==
    IF chunk = << >> THEN 0
    ELSE sentences[Head(chunk)] + word_count(sentences, Tail(chunk))

RECURSIVE split_loop(_, _, _, _, _)
\* lines 38-53, from sentence k on; sentences are named by their position
split_loop(sentences, k, chunks, current_chunk, max_words) ==
    IF k > Len(sentences)
    THEN IF current_chunk # << >> THEN Append(chunks, current_chunk) ELSE chunks
    ELSE IF /\ word_count(sentences, current_chunk) + sentences[k] > max_words
            /\ current_chunk # << >>
         THEN split_loop(sentences, k + 1, Append(chunks, current_chunk),
                         << k >>, max_words)
         ELSE split_loop(sentences, k + 1, chunks,
                         Append(current_chunk, k), max_words)

\* lines 27-55
split_text_smart(sentences, max_words) ==
    LET all == [k \in 1..Len(sentences) |-> k]
    IN  IF word_count(sentences, all) <= max_words
        THEN << all >>
        ELSE split_loop(sentences, 1, << >>, << >>, max_words)

InitSplit ==
    /\ \E c \in SentenceLists, t \in BOOLEAN, m \in 1..MaxChunkWords :
          split = [NoSplit EXCEPT !.sentences = sentences_of(c, t),
                                  !.trailing = t /\ c # << >>,
                                  !.max_words = m, !.done = FALSE]
    /\ sel = NoSel
    /\ runs = NoRuns
    /\ alloc = NoAlloc
    /\ gen = NoGen
    /\ fit = NoFit
    /\ overlay = NoOverlay
    /\ NoPipeline

SplitText ==
    /\ ~split.done
    /\ split' = [split EXCEPT
                    !.out = split_text_smart(split.sentences, split.max_words),
                    !.done = TRUE]
    /\ UNCHANGED << pipevars, alloc, gen, fit, overlay, sel, runs >>

NextSplit == SplitText

SpecSplit == InitSplit /\ [][NextSplit]_vars

\* -------------------------------------------- file names of run_story_tts
TitleLimit == 50
MaxStories == 2

\* Python strings are sequences of one-character strings
Wav == << ".", "w", "a", "v" >>
Untitled == << "u", "n", "t", "i", "t", "l", "e", "d" >>

\* a in b
IsSubstring(a, b) ==
    \E i \in 0..(Len(b) - Len(a)) : SubSeq(b, i + 1, i + Len(a)) = a

\* b.endswith(a)
EndsWith(b, a) ==
    Len(a) <= Len(b) /\ SubSeq(b, Len(b) - Len(a) + 1, Len(b)) = a

\* the characters [^\w\-_ ] removes
InvalidChars == {"!", "?", ".", "'"}

RECURSIVE strip(_)
\* str.strip() for the white space that is left, blanks
strip(t) ==
    IF t = << >> THEN t
    ELSE IF Head(t) = " " THEN strip(Tail(t))
    ELSE IF t[Len(t)] = " " THEN strip(SubSeq(t, 1, Len(t) - 1))
    ELSE t

\* lines 11-14
sanitize_filename(title) ==
    LET kept == SelectSeq(title, LAMBDA c : c \notin InvalidChars)
        cut == SubSeq(kept, 1, IF Len(kept) < TitleLimit THEN Len(kept)
                                                         ELSE TitleLimit)
        stripped == strip(cut)
        filename == [k \in 1..Len(stripped) |->
                        IF stripped[k] = " " THEN "_" ELSE stripped[k]]
    IN  IF filename = << >> THEN Untitled ELSE filename

\* lines 112, 114: the audio file of a story
audio_name(story) ==
    sanitize_filename(story.title) \o << "_" >> \o story.id \o Wav

\* stories as the scraper returns them; a post without id gets ''
StoryRecords ==
    {[id |-> << "a", "b" >>, title |-> << "t" >>],
     [id |-> << "b", "a" >>, title |-> << "t" >>],
     [id |-> << >>, title |-> << "?" >>],
     [id |-> << "b", "b" >>, title |-> << "a", " ", "b", "a", "!" >>]}

StoryLists == UNION {[1..n -> StoryRecords] : n \in 0..MaxStories}

\* run_story_tts.py, lines 16-23
already_processed(post_id, exists, files) ==
    /\ exists
    /\ \E fname \in files : EndsWith(fname, Wav) /\ IsSubstring(post_id, fname)

\* find_next_unprocessed_story.py, lines 8-14
find_already_processed(post_id, exists, files) ==
    /\ exists
    /\ \E fname \in files : EndsWith(fname, Wav) /\ IsSubstring(post_id, fname)

RECURSIVE next_from(_, _, _, _)
\* run_story_tts.py, lines 38-48, from story k on: the position of the story
\* returned, 0 for None
next_from(stories, k, exists, files) ==
    IF k > Len(stories) THEN 0
    ELSE IF ~already_processed(stories[k].id, exists, files) THEN k
    ELSE next_from(stories, k + 1, exists, files)

get_next_unprocessed_story(stories, exists, files) ==
    next_from(stories, 1, exists, files)

RECURSIVE find_next_from(_, _, _, _)
\* find_next_unprocessed_story.py, lines 17-20
find_next_from(stories, k, exists, files) ==
    IF k > Len(stories) THEN 0
    ELSE IF ~find_already_processed(stories[k].id, exists, files) THEN k
    ELSE find_next_from(stories, k + 1, exists, files)

\* the loop started at the second story
find_get_next_skipping_first(stories, exists, files) ==
    find_next_from(stories, 2, exists, files)

find_get_next_unprocessed_story(stories, exists, files) ==
    find_next_from(stories, 1, exists, files)

\* --------------------------------- harness of get_next_unprocessed_story
\* what the audio directory may hold: audio of stories, and other files
OtherFiles == {<< "a", "b", ".", "t", "x", "t" >>, << "x" >> \o Wav}
AudioNames == {audio_name(s) : s \in StoryRecords} \cup OtherFiles
AudioDirs == {F \in SUBSET AudioNames : Cardinality(F) <= 2}

InitSel ==
    /\ \E l \in StoryLists, e \in BOOLEAN, F \in AudioDirs :
          /\ ~e => F = {}
          /\ sel = [NoSel EXCEPT !.stories = l, !.exists = e, !.files = F,
                                 !.done = FALSE]
    /\ split = NoSplit
    /\ runs = NoRuns
    /\ alloc = NoAlloc
    /\ gen = NoGen
    /\ fit = NoFit
    /\ overlay = NoOverlay
    /\ NoPipeline

SelectNext ==
    /\ ~sel.done
    /\ sel' = [sel EXCEPT
                  !.run_out = get_next_unprocessed_story(sel.stories, sel.exists,
                                                         sel.files),
                  !.find_out = find_get_next_unprocessed_story(sel.stories,
                                                               sel.exists,
                                                               sel.files),
                  !.done = TRUE]
    /\ UNCHANGED << pipevars, alloc, gen, fit, overlay, split, runs >>

NextSel == SelectNext

SpecSel == InitSel /\ [][NextSel]_vars

\* ------------------------------------------------ runs of run_story_tts.main
MaxRuns == 2

\* the names in the audio directory; made remembers the story each was
\* generated for
FilesOf(made) == {m.name : m \in made}

InitRuns ==
    /\ runs = NoRuns
    /\ split = NoSplit
    /\ sel = NoSel
    /\ alloc = NoAlloc
    /\ gen = NoGen
    /\ fit = NoFit
    /\ overlay = NoOverlay
    /\ NoPipeline

\* lines 83-134: one run over the fetched stories; tts_story_json writes the
\* audio file or, on an API error or empty text, nothing
RunMain ==
    /\ runs.n < MaxRuns
    /\ \E stories \in StoryLists, tts_ok \in BOOLEAN :
          LET next_story == get_next_unprocessed_story(stories, TRUE,
                                                       FilesOf(runs.made))
              written == IF next_story # 0 /\ tts_ok
                         THEN {[name |-> audio_name(stories[next_story]),
                                story |-> stories[next_story]]}
                         ELSE {}
          IN  runs' = [exists |-> TRUE,
                       made |-> runs.made \cup written,
                       n |-> runs.n + 1,
                       stories |-> stories,
                       before |-> runs.made,
                       picked |-> next_story]
    /\ UNCHANGED << pipevars, alloc, gen, fit, overlay, split, sel >>

NextRuns == RunMain

SpecRuns == InitRuns /\ [][NextRuns]_vars

\* ----------------------------------------- harness of generate_story_images
MaxStorySegments == 4

\* what happens to a segment of the split story: it is shorter than 10
\* characters, or generate_image_from_text returns False, or True
SegmentOutcomes == {"short", "fail", "ok"}

Stories == UNION {[1..n -> SegmentOutcomes] : n \in 0..MaxStorySegments}

\* the index taken from the length of the result list
image_entry_by_length(i, generated_images) ==
    [path |-> i + 1, segment_text |-> i, index |-> Len(generated_images)]

\* the entry appended for segment i (0-based, as enumerate counts)
image_entry(i, generated_images) ==
    [path |-> i + 1, segment_text |-> i, index |-> i]

RECURSIVE images_loop(_, _, _)
\* lines 147-170, from segment i on
images_loop(segments, i, generated_images) ==
    IF i >= Len(segments) THEN generated_images
    ELSE IF segments[i + 1] = "ok"
         THEN images_loop(segments, i + 1,
                          Append(generated_images, image_entry(i, generated_images)))
         ELSE images_loop(segments, i + 1, generated_images)

generate_story_images(segments) == images_loop(segments, 0, << >>)

InitImages ==
    /\ gen \in [segments : Stories, out : {<< >>}, done : {FALSE}]
    /\ alloc = NoAlloc
    /\ fit = NoFit
    /\ overlay = NoOverlay
    /\ NoTtsCalls
    /\ NoPipeline

GenerateImages ==
    /\ ~gen.done
    /\ gen' = [gen EXCEPT !.out = generate_story_images(gen.segments),
                          !.done = TRUE]
    /\ UNCHANGED << pipevars, ttsvars, alloc, fit, overlay >>

NextImages == GenerateImages

SpecImages == InitImages /\ [][NextImages]_vars

AbsDiff(a, b) == IF a < b THEN b - a ELSE a - b

\* C3 (as stated): for N >= 1 and D >= 0 the allocator returns N durations,
\* each >= 2.0, whose sum is >= D and equals D whenever D / N >= 2.0.
C3_Original ==
    (alloc.done /\ alloc.n >= 1) =>
        /\ Len(alloc.out) = alloc.n
        /\ \A k \in 1..alloc.n : alloc.out[k] >= min_duration
        /\ ExactSum(alloc.out) >= alloc.total
        /\ (alloc.total >= min_duration * alloc.n
               => ExactSum(alloc.out) = alloc.total)

\* C3 (amended): for N >= 1 and D >= 0 the allocator returns N durations,
\* each >= 2.0; when D / N < 2.0 all are 2.0 and the sum 2N is >= D; when
\* D / N >= 2.0 the sum equals D up to float rounding only:
\* |sum - D| <= N * D * 2^-(Precision-1).
C3_Allocation ==
    (alloc.done /\ alloc.n >= 1) =>
        /\ Len(alloc.out) = alloc.n
        /\ \A k \in 1..alloc.n : alloc.out[k] >= min_duration
        /\ (alloc.total < min_duration * alloc.n
               => /\ \A k \in 1..alloc.n : alloc.out[k] = min_duration
                  /\ ExactSum(alloc.out) >= alloc.total)
        /\ (alloc.total >= min_duration * alloc.n
               => AbsDiff(ExactSum(alloc.out), alloc.total) * Pow2(Precision - 1)
                     <= alloc.n * alloc.total)

\* a floor-bound allocation and a rounded one have both been computed
C3_Witness ==
    /\ alloc.done
    /\ alloc.n = 3
    /\ alloc.total >= min_duration * alloc.n
    /\ ExactSum(alloc.out) # alloc.total

\* ------------------------------------------------------------- properties
Returned(j) == pc[j] \in {"assembled", "returned"}

\* the frame files of the call are on disk until rmtree
BeforeCleanup(j) == pc[j] \in {"frames", "mkout", "run", "encoding", "exited"}

FrameOf(j, k) == frameFiles[TempDirOf(j)][k - 1]

Undecodable(img_data) == Exists(img_data.path) /\ ~Decodable(img_data.path)

\* C1: when a call that made its temporary frame directory returns, the
\* directory no longer exists, whatever the exit path.
C1_TempDirRemoved ==
    \A j \in Jobs :
        (Returned(j) /\ loc[j].temp_made) => TempDirOf(j) \notin tempDirs

\* a frame file or manifest that job j wrote and whose encoder run is not over
InUseBy(j, file) == file.by = j /\ pc[j] \in {"frames", "mkout", "run", "encoding"}

StepOf(j) == pc'[j] # pc[j] \/ loc'[j] # loc[j]

\* C2: of two overlapping calls with distinct output paths, neither writes,
\* overwrites or deletes a frame file or manifest the other one created and
\* still uses.
C2_ExclusiveTempDir ==
    [][\A j \in Jobs, d \in OutDirs :
          /\ \A f \in FrameIds :
                (InUseBy(j, frameFiles[d][f]) /\ frameFiles'[d][f] # frameFiles[d][f])
                    => StepOf(j)
          /\ (InUseBy(j, manifests[d]) /\ manifests'[d] # manifests[d])
                    => StepOf(j)]_vars

\* C4: a call of the assembler with an empty list returns False, and no step
\* of it creates a directory, writes a file or runs the encoder.
C4_EmptyListNoWrites ==
    [][\A j \in Jobs :
          (InCall(j) /\ loc[j].called /\ Len(args[j].images) = 0) =>
              /\ UNCHANGED fsvars
              /\ enc'[j].runs = 0
              /\ ~loc'[j].temp_made
              /\ Returned(j)' => ret'[j].success = "False"]_vars

C4_Witness ==
    \E j \in Jobs :
        /\ pc[j] = "returned"
        /\ loc[j].called
        /\ Len(args[j].images) = 0
        /\ ret[j].success = "False"

\* C5 (as stated): the frame of a segment whose image file exists but cannot
\* be decoded is the text frame of the segment's text.
C5_Original ==
    \A j \in Jobs :
        BeforeCleanup(j) =>
            \A k \in 1..Len(loc[j].processed_images) :
                Undecodable(args[j].images[k]) =>
                    /\ FrameOf(j, k).kind = "text"
                    /\ FrameOf(j, k).src = args[j].images[k].segment_text

\* C5 (amended): the frame of a segment whose image file exists but cannot
\* be decoded is the all-black fallback frame of resize_image_for_video, and
\* the loop is never aborted at such a segment.
C5_BlackFallback ==
    \A j \in Jobs :
        /\ BeforeCleanup(j) =>
              \A k \in 1..Len(loc[j].processed_images) :
                  Undecodable(args[j].images[k]) => FrameOf(j, k).kind = "black"
        /\ (Returned(j) /\ loc[j].exc # "none" /\ loc[j].i < Len(args[j].images))
              => ~Undecodable(args[j].images[loc[j].i + 1])

C5_Witness ==
    \E j \in Jobs :
        /\ pc[j] = "returned"
        /\ ret[j].result = "True"
        /\ \E k \in 1..Len(args[j].images) : Undecodable(args[j].images[k])

\* C6: every segment gets a frame and the loop goes on: the output of
\* resize_image_for_video when the path is present and the file exists,
\* otherwise the text frame of the segment text, or of 'Part i+1' when the
\* text is absent; a segment without path or text never aborts the call.
C6_EverySegmentFramed ==
    \A j \in Jobs :
        /\ (Returned(j) /\ loc[j].called /\ Len(args[j].images) > 0)
              => loc[j].i = Len(args[j].images)
        /\ BeforeCleanup(j) =>
              \A k \in 1..Len(loc[j].processed_images) :
                  LET img_data == args[j].images[k]
                  IN  IF img_data.path # NoKey /\ Exists(img_data.path)
                      THEN FrameOf(j, k).kind \in {"image", "black"}
                      ELSE /\ FrameOf(j, k).kind = "text"
                           /\ IF img_data.segment_text = NoKey
                              THEN /\ FrameOf(j, k).src = "Part"
                                   /\ FrameOf(j, k).part = k
                              ELSE FrameOf(j, k).src = img_data.segment_text

\* the manifest the code is meant to write for the call's arguments
ExpectedLine(j, n) ==
    IF n = 2 * Len(args[j].images) + 1
    THEN [tag |-> "file", dir |-> TempDirOf(j),
          frame |-> Len(args[j].images) - 1, duration |-> 0]
    ELSE IF n % 2 = 1
    THEN [tag |-> "file", dir |-> TempDirOf(j), frame |-> (n - 1) \div 2,
          duration |-> 0]
    ELSE [tag |-> "duration", dir |-> "", frame |-> 0,
          duration |-> calculate_image_durations(args[j].images,
                            get_audio_duration(args[j].audio_path))[n \div 2]]

\* C7: the manifest handed to the encoder lists, for the N segments in order,
\* the frame rendered from segment i and the i-th allocated duration, then
\* the last frame's path once more without a duration.
C7_Manifest ==
    \A j \in Jobs :
        enc[j].spawned =>
            /\ enc[j].input.present
            /\ Len(enc[j].input.lines) = 2 * Len(args[j].images) + 1
            /\ \A n \in 1..Len(enc[j].input.lines) :
                  enc[j].input.lines[n] = ExpectedLine(j, n)
            /\ pc[j] = "encoding" =>
                  \A k \in 1..Len(args[j].images) :
                      /\ FrameOf(j, k).by = j
                      /\ FrameOf(j, k).kind = processed_img(args[j].images[k], k - 1).kind
                      /\ FrameOf(j, k).src = processed_img(args[j].images[k], k - 1).src
                      /\ FrameOf(j, k).part = processed_img(args[j].images[k], k - 1).part

C7_Witness ==
    \E j \in Jobs :
        /\ pc[j] = "encoding"
        /\ Len(args[j].images) = 2
        /\ args[j].images[1] # args[j].images[2]

\* C8: a failed probe yields duration 0, and a call with N >= 1 segments then
\* builds N frames of 2.0 seconds each and runs the encoder unless some other
\* step raises; when nothing raises its result is the encoder's exit status.
C8_ProbeFailureTolerated ==
    \A j \in Jobs :
        (loc[j].called /\ ProbeFails(args[j].audio_path)) =>
            /\ pc[j] \notin {"load", "probe"} => loc[j].audio_duration = 0
            /\ (Returned(j) /\ Len(args[j].images) >= 1 /\ loc[j].exc = "none") =>
                  /\ enc[j].spawned
                  /\ Len(loc[j].processed_images) = Len(args[j].images)
                  /\ \A k \in 1..Len(loc[j].processed_images) :
                        loc[j].processed_images[k].duration = min_duration
                  /\ ret[j].success = (IF loc[j].returncode = 0 THEN "True" ELSE "False")

C8_Witness ==
    \E j \in Jobs :
        /\ pc[j] = "returned"
        /\ ProbeFails(args[j].audio_path)
        /\ args[j].audio_path.readable
        /\ Len(args[j].images) = 2
        /\ ret[j].result = "True"

\* C9: the call reports success exactly when the encoder was run and exited
\* with status 0, reports failure on any other exit status, and runs the
\* encoder at most once.
C9_SuccessIffExitZero ==
    \A j \in Jobs :
        /\ enc[j].runs <= 1
        /\ ~Returned(j) => ret[j].success = "unset"
        /\ (Returned(j) /\ loc[j].called) =>
              /\ ret[j].success \in {"True", "False"}
              /\ ret[j].success = "True"
                    <=> (enc[j].spawned /\ enc[j].runs = 1 /\ loc[j].returncode = 0)

C9_Witness ==
    \E j \in Jobs :
        /\ pc[j] = "returned"
        /\ enc[j].spawned
        /\ loc[j].returncode = 1
        /\ ret[j].success = "False"

\* C10: generate_story_video returns the assembler's result when the record
\* loads; when the record is missing or malformed it returns False, never
\* calls the assembler and leaves the disk as it was.
C10_JobResult ==
    [][\A j \in Jobs :
          /\ (InCall(j) /\ args[j].json_path # "story") =>
                /\ UNCHANGED fsvars
                /\ ~loc'[j].called
                /\ enc'[j].runs = 0
                /\ pc'[j] = "returned" => ret'[j].result = "False"
          /\ (InCall(j) /\ args[j].json_path = "story" /\ pc'[j] = "returned") =>
                /\ loc[j].called
                /\ ret[j].success \in {"True", "False"}
                /\ ret'[j].result = ret[j].success]_vars

C10_Witness ==
    \E j \in Jobs :
        /\ pc[j] = "returned"
        /\ args[j].json_path = "malformed"
        /\ ret[j].result = "False"

\* C11: when ffmpeg is started, every segment's frame file and the complete
\* manifest of the call are already on disk.
C11_FramesBeforeEncoder ==
    [][\A j \in Jobs :
          enc'[j].runs > enc[j].runs =>
              /\ loc[j].i = Len(args[j].images)
              /\ Len(loc[j].processed_images) = Len(args[j].images)
              /\ \A k \in 1..Len(args[j].images) :
                    /\ FrameOf(j, k).kind # "none"
                    /\ FrameOf(j, k).by = j
              /\ manifests[TempDirOf(j)].present
              /\ manifests[TempDirOf(j)].by = j
              /\ Len(manifests[TempDirOf(j)].lines) = 2 * Len(args[j].images) + 1]_vars

\* ffmpeg has been started on a call with two segments
C11_Witness ==
    \E j \in Jobs :
        /\ enc[j].spawned
        /\ enc[j].runs = 1
        /\ Len(args[j].images) = 2
        /\ \A k \in 1..2 : FrameOf(j, k).by = j

Max(a, b) == IF a < b THEN b ELSE a

\* C12 (as stated): for N >= 1 and D >= 0 the durations add up to D exactly.
C12_Original ==
    (alloc.done /\ alloc.n >= 1) => ExactSum(alloc.out) = alloc.total

\* C12 (amended): for N >= 1 and D >= 0 the durations add up to max(D, 2.0 N)
\* up to float rounding, |sum - max(D, 2N)| <= N * D * 2^-(Precision-1); all
\* durations but the last are equal and only the last is ever extended.
C12_SumCoversDuration ==
    (alloc.done /\ alloc.n >= 1) =>
        /\ AbsDiff(ExactSum(alloc.out), Max(alloc.total, min_duration * alloc.n))
              * Pow2(Precision - 1) <= alloc.n * alloc.total
        /\ \A k \in 1..(alloc.n - 1) : alloc.out[k] = alloc.out[1]
        /\ alloc.out[alloc.n] >= alloc.out[1]

\* the floor binds: the sum overruns the audio
C12_Witness ==
    /\ alloc.done
    /\ alloc.n >= 2
    /\ alloc.total > 0
    /\ alloc.total < min_duration * alloc.n
    /\ ExactSum(alloc.out) > alloc.total

\* C16 is a statement about repeated evaluation of calculate_image_durations;
\* the operator above has no state to depend on, so it has no formula here.

\* C17 (as stated): allocate(N, D) is N copies of max(D / N, 2.0), empty for
\* N = 0; the last segment never differs from the others.
C17_Original ==
    alloc.done =>
        alloc.out = [k \in 1..alloc.n |->
                        Max(fdiv(alloc.total, alloc.n), min_duration)]

\* C17 (amended): allocate(N, D) is empty for N = 0; otherwise the first N-1
\* durations are max(D / N, 2.0) and the last one is that value too, unless
\* the float sum of the N copies is below D: then it is larger.  This
\* happens only when the floor does not bind.
C17_CopiesAndResidual ==
    alloc.done =>
        /\ Len(alloc.out) = alloc.n
        /\ \A k \in 1..(alloc.n - 1) :
              alloc.out[k] = Max(fdiv(alloc.total, alloc.n), min_duration)
        /\ alloc.n >= 1 =>
              LET base == Max(fdiv(alloc.total, alloc.n), min_duration)
                  copies == [k \in 1..alloc.n |-> base]
              IN  /\ alloc.out[alloc.n] >= base
                  /\ alloc.out[alloc.n] > base <=> sum(copies) < alloc.total
                  /\ alloc.out[alloc.n] > base => alloc.total >= min_duration * alloc.n
                  /\ alloc.total < min_duration * alloc.n => alloc.out[alloc.n] = min_duration

\* the residual correction has changed the last duration
C17_Witness ==
    /\ alloc.done
    /\ alloc.n >= 2
    /\ alloc.out[alloc.n] > alloc.out[1]

\* C13 (as stated): in the list returned by generate_story_images every
\* entry's index is unique and equals the entry's position in the list.
C13_Original ==
    gen.done =>
        \A p \in 1..Len(gen.out) : gen.out[p].index = p - 1

\* C13 (amended): every entry's index is the position of its segment in the
\* split story; indexes are unique and strictly increasing along the list,
\* never below the list position, and equal to it exactly when no earlier
\* segment was skipped or failed.  Every generated segment has its entry.
C13_IndexIsStoryPosition ==
    gen.done =>
        /\ \A p \in 1..Len(gen.out) :
              /\ gen.out[p].index = gen.out[p].segment_text
              /\ gen.out[p].index \in 0..(Len(gen.segments) - 1)
              /\ gen.segments[gen.out[p].index + 1] = "ok"
              /\ gen.out[p].index >= p - 1
              /\ gen.out[p].index = p - 1 <=>
                    \A i \in 1..gen.out[p].index : gen.segments[i] = "ok"
        /\ \A p, q \in 1..Len(gen.out) :
              p < q => gen.out[p].index < gen.out[q].index
        /\ Len(gen.out) = Cardinality({i \in 1..Len(gen.segments) :
                                            gen.segments[i] = "ok"})

\* a skipped segment and a failed one precede a generated one
C13_Witness ==
    /\ gen.done
    /\ Len(gen.out) >= 1
    /\ \E i, k \in 1..Len(gen.segments) :
          /\ gen.segments[i] = "short"
          /\ gen.segments[k] = "fail"
          /\ i <= gen.out[Len(gen.out)].index
          /\ k <= gen.out[Len(gen.out)].index

\* C14: for every decodable source image resize_image_for_video returns a
\* frame of exactly (target_width, target_height) pixels.
C14_ExactFrameSize ==
    fit.done => fit.size = << fit.W, fit.H >>

\* a source far wider than the target has been letterboxed
C14_Witness ==
    /\ fit.done
    /\ fit.w >= 2 * fit.h
    /\ fit.resized
    /\ fit.new_size[2] < fit.H
    /\ fit.offset[2] > 0
    /\ fit.size = << fit.W, fit.H >>

\* C18: for every source size (w, h) with w, h >= 1 the scaled size is a
\* valid fit, 1 <= nw <= W and 1 <= nh <= H with nw = W or nh = H, and the
\* centring offsets are non-negative.
C18_ValidFit ==
    fit.done =>
        /\ 1 <= fit.new_size[1] /\ fit.new_size[1] <= fit.W
        /\ 1 <= fit.new_size[2] /\ fit.new_size[2] <= fit.H
        /\ fit.new_size[1] = fit.W \/ fit.new_size[2] = fit.H
        /\ x_offset(fit.W, fit.new_size[1]) >= 0
        /\ y_offset(fit.H, fit.new_size[2]) >= 0

\* C15: create_text_overlay_image never raises; for every text it returns a
\* frame of exactly the requested width and height.
C15_NeverRaises ==
    overlay.done =>
        /\ overlay.raised = "none"
        /\ overlay.size = << overlay.width, overlay.height >>

RECURSIVE Flatten(_)
Flatten(lines) ==
    IF lines = << >> THEN << >> ELSE Head(lines) \o Flatten(Tail(lines))

\* C19: the wrapped lines, read line by line, are exactly the input words in
\* order; no line is empty, and every line of more than one word is at most
\* width - 100 wide.
C19_WrapKeepsWords ==
    (overlay.done /\ overlay.drawn = "lines") =>
        /\ Flatten(overlay.lines) = [k \in 1..Len(overlay.text.words) |-> k]
        /\ \A i \in 1..Len(overlay.lines) :
              /\ overlay.lines[i] # << >>
              /\ Len(overlay.lines[i]) > 1 =>
                    line_width(overlay.text.words, overlay.lines[i])
                        <= overlay.width - Margin

\* a line of two words is followed by a line made of one over-wide word
C19_Witness ==
    /\ overlay.done
    /\ overlay.drawn = "lines"
    /\ \E i \in 1..(Len(overlay.lines) - 1) :
          /\ Len(overlay.lines[i]) = 2
          /\ Len(overlay.lines[i + 1]) = 1
          /\ line_width(overlay.text.words, overlay.lines[i + 1])
                > overlay.width - Margin

C21_ChunksWithinLimit ==
    split.done =>
        /\ \A i \in 1..Len(split.out) :
              word_count(split.sentences, split.out[i]) <= split.max_words
        /\ Flatten(split.out) = [k \in 1..Len(split.sentences) |-> k]

\* C22: get_next_unprocessed_story returns the first story in list order for
\* which already_processed is false, None exactly when every story is
\* processed, and both copies of the function select the same story.
C22_FirstUnprocessed ==
    sel.done =>
        LET done(k) == already_processed(sel.stories[k].id, sel.exists, sel.files)
        IN  /\ sel.run_out = sel.find_out
            /\ sel.run_out \in 0..Len(sel.stories)
            /\ sel.run_out = 0 <=> \A k \in 1..Len(sel.stories) : done(k)
            /\ sel.run_out # 0 =>
                  /\ ~done(sel.run_out)
                  /\ \A k \in 1..(sel.run_out - 1) : done(k)

\* the second story of the list has been selected, the first being processed
C22_Witness ==
    /\ sel.done
    /\ sel.run_out = 2
    /\ sel.find_out = 2
    /\ sel.stories[1].id # << >>
    /\ audio_name(sel.stories[1]) \in sel.files

\* the stories the last run passed over as already processed
SkippedInLastRun ==
    {k \in 1..Len(runs.stories) : runs.picked = 0 \/ k < runs.picked}

\* C23: a story is skipped as already processed only if an audio file
\* generated for that same story in an earlier run is in the audio directory.
C23_SkippedOnlyIfOwnAudio ==
    \A k \in SkippedInLastRun :
        \E m \in runs.before : m.story = runs.stories[k]

=============================================================================
